---- MODULE Spec2Model ----
(***************************************************************************)
(* State-machine model of the story workflow engine                        *)
(* (backend/app/services/story_workflow_service.py and its routes).        *)
(*                                                                         *)
(* Optional values are encoded as sequences: None is <<>>, a present value *)
(* v is <<v>>.  Scores are in tenths (7 stands for 0.7).  A reply of the   *)
(* text-generation service is a sequence of tokens; the parsers work on    *)
(* the tokens the way the source works on the characters.                  *)
(***************************************************************************)
EXTENDS Integers, Sequences, FiniteSets, TLC

VARIABLES
    workflows,  \* StoryWorkflowService.workflows: id -> StoryWorkflow
    result,     \* outcome of the last operation, as its caller sees it
    batch,      \* the generator of generate_all_chapters_stream and its events
    issued,     \* the workflow ids uuid4 has produced so far
    tasks       \* the coroutines under way at once on a workflow, each at a
                \* suspension point

vars == <<workflows, result, batch, issued, tasks>>

----------------------------------------------------------------------------
(* Bounds of the model *)

\* longest reply text, in tokens, of a structured stage
MaxReplyLen == 4
\* most lines of a validation reply given to the validation parser
MaxValidationLines == 3
\* most chapters of an outline reply given to the outline stage
MaxOutline == 1
\* most chapters of the outline a batch run starts from
MaxBatchOutline == 2

None == <<>>
Some(v) == <<v>>

WorkflowIds == {"w1", "w2"}

\* sequences over S of length at most n
RECURSIVE SeqsUpTo(_, _)
SeqsUpTo(S, n) ==
    IF n = 0 THEN {<<>>}
    ELSE LET shorter == SeqsUpTo(S, n - 1)
         IN  shorter \cup {Append(s, x) : s \in {t \in shorter : Len(t) = n - 1}, x \in S}

----------------------------------------------------------------------------
(* story_models.py *)

Steps == <<"characters_settings", "outline", "chapter_generation", "validation", "completed">>

StepRank(s) == CHOOSE i \in 1..Len(Steps) : Steps[i] = s

StoryWorkflow ==
    [ current_step           |-> "characters_settings",
      characters             |-> <<>>,
      settings               |-> None,
      outline                |-> None,
      chapters               |-> <<>>,
      total_chapters_planned |-> 0,
      chapters_completed     |-> 0,
      is_complete            |-> FALSE ]

----------------------------------------------------------------------------
(* Replies of the text-generation service and the JSON slice *)

\* str.find("{"): 1-based position of the first "{", 0 when there is none
FindOpen(text) ==
    IF \E i \in 1..Len(text) : text[i] = "{"
    THEN CHOOSE i \in 1..Len(text) :
            text[i] = "{" /\ \A j \in 1..(i - 1) : text[j] # "{"
    ELSE 0

\* str.rfind("}"): 1-based position of the last "}", 0 when there is none
RFindClose(text) ==
    IF \E i \in 1..Len(text) : text[i] = "}"
    THEN CHOOSE i \in 1..Len(text) :
            text[i] = "}" /\ \A j \in (i + 1)..Len(text) : text[j] # "}"
    ELSE 0

\* response[start:end]
JsonSlice(text) == SubSeq(text, FindOpen(text), RFindClose(text))

BraceTokens == {"{", "}"}

\* json.loads succeeds on the slice: an object whose members are whole fields
JsonLoads(slice, fieldTokens) ==
    /\ Len(slice) >= 2
    /\ slice[1] = "{"
    /\ slice[Len(slice)] = "}"
    /\ \A i \in 2..(Len(slice) - 1) : slice[i] \in fieldTokens

\* data.get(key, default): the last member among `tokens`, "absent" when none
JsonGet(slice, tokens) ==
    LET hits == {i \in 2..(Len(slice) - 1) : slice[i] \in tokens}
    IN  IF hits = {} THEN "absent"
        ELSE slice[CHOOSE i \in hits : \A j \in hits : j <= i]

----------------------------------------------------------------------------
(* ollama_service.generate_story_complete *)

\* what a call of the service meets: "ok" when the service answers with
\* status 200, "fails" when it is unreachable or answers with another status
ServiceOutcomes == {"ok", "fails"}

\* f"Error: {str(e)}"
ErrorText == "Error: All connection attempts failed"

\* The function raises nothing: a failure of the call is caught and comes
\* back as a text, like a reply.
GenerateStoryComplete(outcome, reply) == IF outcome = "ok" THEN reply ELSE ErrorText

\* The texts of a failed call, in tokens: of an unreachable service, and of a
\* status other than 200 whose body is a JSON object (its members are none
\* that a parser reads)
ServiceErrorReplies == { <<ErrorText>>, <<"Error: Ollama API error: 404 -", "{", "}">> }

\* the outcomes of the three calls of one chapter generation
ChapterCallOutcomes == [1..3 -> ServiceOutcomes]

\* the three calls all answered
AnsweredCalls == {[k \in 1..3 |-> "ok"]}

----------------------------------------------------------------------------
(* _parse_characters_settings_response *)

CharFieldTokens == {"chars_empty", "chars_one", "chars_bad"}
SettingsFieldTokens == {"settings_ok", "settings_bad"}
CSFieldTokens == CharFieldTokens \cup SettingsFieldTokens
CSTokens == BraceTokens \cup {"text"} \cup CSFieldTokens

CSReplies == SeqsUpTo(CSTokens, MaxReplyLen)

FallbackCharacters == <<[name |-> "Main Character", role |-> "protagonist"]>>
FallbackSettings == [genre |-> "Fiction", setting |-> "Contemporary", tone |-> "Engaging"]

ParsedCharacters == <<[name |-> "Ada", role |-> "supporting"]>>
ParsedSettings == [genre |-> "Mystery", setting |-> "Harbour", tone |-> "Dark"]

CSFallback == [characters |-> FallbackCharacters, settings |-> FallbackSettings]

\* the fallback taken for the settings alone when they cannot be built
ParseCharactersSettingsResponse_SettingsFallbackOnly(response) ==
    LET slice == JsonSlice(response)
        chars == JsonGet(slice, CharFieldTokens)
        sett  == JsonGet(slice, SettingsFieldTokens)
    IN  IF FindOpen(response) # 0 /\ RFindClose(response) # 0
        THEN IF ~JsonLoads(slice, CSFieldTokens) THEN CSFallback
             ELSE IF chars = "chars_bad" THEN CSFallback
             ELSE [ characters |-> IF chars = "chars_one" THEN ParsedCharacters ELSE <<>>,
                    settings   |-> IF sett = "settings_ok" THEN ParsedSettings
                                   ELSE FallbackSettings ]
        ELSE CSFallback

ParseCharactersSettingsResponse(response) ==
    LET slice == JsonSlice(response)
        chars == JsonGet(slice, CharFieldTokens)
        sett  == JsonGet(slice, SettingsFieldTokens)
    IN  IF FindOpen(response) # 0 /\ RFindClose(response) # 0
        THEN IF ~JsonLoads(slice, CSFieldTokens) THEN CSFallback
             ELSE IF chars = "chars_bad" THEN CSFallback
             \* StorySettings(**{}) misses its required fields
             ELSE IF sett # "settings_ok" THEN CSFallback
             ELSE [ characters |-> IF chars = "chars_one" THEN ParsedCharacters ELSE <<>>,
                    settings   |-> ParsedSettings ]
        ELSE CSFallback

----------------------------------------------------------------------------
(* _parse_outline_response *)

\* An outline reply is its text and, beside it, the chapter numbers that the
\* text's "chapters" member lists (the model chooses them freely).
OutlineFieldTokens == {"chapters", "chapters_bad"}
OutlineTokens == BraceTokens \cup {"text"} \cup OutlineFieldTokens

\* the chapter numbers a reply or a request names: 0, the numbers an outline
\* of one or two chapters has, and one no such outline has
ChapterNumbers == 0..2

OutlineRepliesUpTo(n) ==
    { [text |-> t, numbers |-> ns] :
        t \in SeqsUpTo(OutlineTokens, MaxReplyLen),
        ns \in SeqsUpTo(ChapterNumbers, n) }

OutlineReplies == OutlineRepliesUpTo(MaxOutline)

TitleNames == <<"T1", "T2", "T3", "T4">>

\* the ChapterOutline of the reply's p-th chapter: its title is the p-th title
ChapterOutline(number, p) == [chapter_number |-> number, title |-> TitleNames[p]]

\* Of a StoryOutline the model keeps the chapters; of a ChapterOutline, the
\* number and the title.
FallbackOutline ==
    [chapters |-> <<[chapter_number |-> 1, title |-> "Chapter 1"]>>]

ParseOutlineResponse(response) ==
    LET text  == response.text
        slice == JsonSlice(text)
        chs   == JsonGet(slice, {"chapters", "chapters_bad"})
    IN  IF FindOpen(text) # 0 /\ RFindClose(text) # 0
        THEN IF ~JsonLoads(slice, OutlineFieldTokens) THEN Some(FallbackOutline)
             ELSE IF chs = "chapters_bad" THEN Some(FallbackOutline)
             ELSE Some([chapters |-> IF chs = "chapters"
                                     THEN [p \in 1..Len(response.numbers) |->
                                              ChapterOutline(response.numbers[p], p)]
                                     \* data.get("chapters", [])
                                     ELSE <<>>])
        \* no brace pair: the function ends without a return statement
        ELSE None

----------------------------------------------------------------------------
(* What the parsers return over every reply the service can give *)

CSParses == {ParseCharactersSettingsResponse(r) : r \in CSReplies}

OutlineParses == {ParseOutlineResponse(r) : r \in OutlineReplies}

\* an outline reply that is the text of a failed call lists no chapter
OutlineErrorReplies == { [text |-> t, numbers |-> <<>>] : t \in ServiceErrorReplies }

----------------------------------------------------------------------------
(* Outcomes, as the routes map them: ValueError -> 404, other raise -> 500 *)

\* op: the operation; chapter_number: the chapter it names (0 when it names
\* none); calls: the text-generation calls it made
Outcome(op, id, n, status, calls) ==
    [op |-> op, chapter_number |-> n, status |-> status, calls |-> calls]

NoOutcome == Outcome("none", "w1", 0, "ok", 0)

\* get_workflow
GetWorkflow(id) == IF id \in DOMAIN workflows THEN Some(workflows[id]) ELSE None

Store(id, wf) == [i \in (DOMAIN workflows) \cup {id} |-> IF i = id THEN wf ELSE workflows[i]]

----------------------------------------------------------------------------
(* create_workflow *)

CreateWorkflow(id) ==
    \* the id of a new workflow is a fresh uuid4
    /\ id \notin issued
    /\ issued' = issued \cup {id}
    /\ workflows' = Store(id, StoryWorkflow)
    /\ result' = Outcome("create_workflow", id, 0, "ok", 0)
    /\ UNCHANGED <<batch, tasks>>

----------------------------------------------------------------------------
(* generate_characters_and_settings *)

\* lines 74-77
CharactersSettingsUpdate(wf, parsed) ==
    [wf EXCEPT !.characters = parsed.characters,
               !.settings = Some(parsed.settings),
               !.current_step = "outline"]

GenerateCharactersAndSettings(id, parsed) ==
    /\ UNCHANGED <<batch, issued, tasks>>
    /\ IF GetWorkflow(id) = None
       THEN /\ result' = Outcome("generate_characters_and_settings", id, 0, "not_found", 0)
            /\ UNCHANGED workflows
       \* nothing but the workflow's existence is checked
       ELSE /\ workflows' = Store(id, CharactersSettingsUpdate(workflows[id], parsed))
            /\ result' = Outcome("generate_characters_and_settings", id, 0, "ok", 1)

----------------------------------------------------------------------------
(* generate_outline *)

\* the guard without its test of the characters
OutlineGuardFails_SettingsOnly(wf) == wf.settings = None

\* line 103: not workflow.characters or not workflow.settings
OutlineGuardFails(wf) == wf.characters = <<>> \/ wf.settings = None

\* the update that counts the planned chapters for the first outline only
OutlineUpdate_PlannedOnce(wf, parsed) ==
    [wf EXCEPT !.outline = parsed,
               !.total_chapters_planned =
                   IF wf.outline = None THEN Len(parsed[1].chapters) ELSE @,
               !.current_step = "chapter_generation"]

\* lines 125-127, for an outline the parser returned
OutlineUpdate(wf, parsed) ==
    [wf EXCEPT !.outline = parsed,
               !.total_chapters_planned = Len(parsed[1].chapters),
               !.current_step = "chapter_generation"]

GenerateOutline(id, parsed) ==
    /\ UNCHANGED <<batch, issued, tasks>>
    /\ IF GetWorkflow(id) = None
       THEN /\ result' = Outcome("generate_outline", id, 0, "not_found", 0)
            /\ UNCHANGED workflows
       ELSE LET wf == workflows[id] IN
            IF OutlineGuardFails(wf)
            THEN /\ result' = Outcome("generate_outline", id, 0, "not_found", 0)
                 /\ UNCHANGED workflows
            ELSE IF parsed = None
                 \* workflow.outline = None, then len(outline.chapters) raises
                 THEN /\ workflows' = Store(id, [wf EXCEPT !.outline = None])
                      /\ result' = Outcome("generate_outline", id, 0, "error", 1)
                 ELSE /\ workflows' = Store(id, OutlineUpdate(wf, parsed))
                      /\ result' = Outcome("generate_outline", id, 0, "ok", 1)

----------------------------------------------------------------------------
(* _parse_validation_response *)

\* A validation reply is the list of its lines (response.strip().split("\n")).
ScoreLines == {"SCORE: 0.5", "SCORE: 0.7", "SCORE: 0.9", "SCORE: 1.5", "SCORE: high"}
FeedbackLines == {"FEEDBACK: fine"}
ValidationLines == ScoreLines \cup FeedbackLines \cup {"text"}

\* line.startswith("SCORE:"), line.startswith("FEEDBACK:")
StartsWithScore(line) == line \in ScoreLines
StartsWithFeedback(line) == line \in FeedbackLines

\* float(line.replace("SCORE:", "").strip()) in tenths; -1 when float() raises
FloatOf(line) ==
    CASE line = "SCORE: 0.5" -> 5
      [] line = "SCORE: 0.7" -> 7
      [] line = "SCORE: 0.9" -> 9
      [] line = "SCORE: 1.5" -> 15
      [] OTHER -> -1

\* line.replace("FEEDBACK:", "").strip()
FeedbackOf(line) == IF line = "FEEDBACK: fine" THEN "fine" ELSE line

\* lines.index(line), 1-based
IndexOf(lines, line) == CHOOSE i \in 1..Len(lines) :
    lines[i] = line /\ \A j \in 1..(i - 1) : lines[j] # line

DefaultScore == 8
FailureScore == 7

\* the for loop without its break at the FEEDBACK: line
RECURSIVE ScanValidationLines_NoBreak(_, _, _, _)
ScanValidationLines_NoBreak(lines, k, score, feedback) ==
    IF k > Len(lines) THEN [raised |-> FALSE, score |-> score, feedback |-> feedback]
    ELSE IF StartsWithScore(lines[k])
         THEN IF FloatOf(lines[k]) = -1
              THEN [raised |-> TRUE, score |-> score, feedback |-> feedback]
              ELSE ScanValidationLines_NoBreak(lines, k + 1, FloatOf(lines[k]), feedback)
    ELSE IF StartsWithFeedback(lines[k])
         THEN ScanValidationLines_NoBreak(lines, k + 1, score,
                  <<FeedbackOf(lines[k])>>
                  \o SubSeq(lines, IndexOf(lines, lines[k]) + 1, Len(lines)))
    ELSE ScanValidationLines_NoBreak(lines, k + 1, score, feedback)

\* the for loop from line k on, with the score and feedback found so far;
\* raised is TRUE when float() raised
RECURSIVE ScanValidationLines(_, _, _, _)
ScanValidationLines(lines, k, score, feedback) ==
    IF k > Len(lines) THEN [raised |-> FALSE, score |-> score, feedback |-> feedback]
    ELSE IF StartsWithScore(lines[k])
         THEN IF FloatOf(lines[k]) = -1
              THEN [raised |-> TRUE, score |-> score, feedback |-> feedback]
              ELSE ScanValidationLines(lines, k + 1, FloatOf(lines[k]), feedback)
    ELSE IF StartsWithFeedback(lines[k])
         THEN [ raised   |-> FALSE,
                score    |-> score,
                feedback |-> <<FeedbackOf(lines[k])>>
                             \o SubSeq(lines, IndexOf(lines, lines[k]) + 1, Len(lines)) ]
    ELSE ScanValidationLines(lines, k + 1, score, feedback)

\* the scan begun from the score of the failure path
ParseValidationResponse_FailureDefault(response) ==
    LET scan == ScanValidationLines(response, 1, FailureScore, response)
    IN  IF scan.raised
        THEN [score |-> FailureScore, feedback |-> response]
        ELSE [score |-> scan.score, feedback |-> scan.feedback]

ParseValidationResponse(response) ==
    LET scan == ScanValidationLines(response, 1, DefaultScore, response)
    IN  IF scan.raised
        THEN [score |-> FailureScore, feedback |-> response]
        ELSE [score |-> scan.score, feedback |-> scan.feedback]

\* the validation replies the stage operations are run on
StageValidationReplies ==
    { <<"SCORE: 0.5">>, <<"SCORE: 0.9", "FEEDBACK: fine">> }

ValidationParses == {ParseValidationResponse(r) : r \in StageValidationReplies}

\* the validation reply of a failed call: the one line of its text
ValidationErrorReply == <<GenerateStoryComplete("fails", "")>>

\* the same with a call that may fail
ValidationParsesWithFailure ==
    ValidationParses \cup {ParseValidationResponse(ValidationErrorReply)}

----------------------------------------------------------------------------
(* generate_chapter *)

\* the position of the first entry of chapters with this number, 0 when none
ExistingChapterIndex(chapters, n) ==
    IF \E i \in 1..Len(chapters) : chapters[i].chapter_number = n
    THEN CHOOSE i \in 1..Len(chapters) :
            chapters[i].chapter_number = n
            /\ \A j \in 1..(i - 1) : chapters[j].chapter_number # n
    ELSE 0

\* Python's seq[k] for a list of length len: the 1-based position, 0 when it
\* raises IndexError (a negative k counts from the end)
PyIndex(k, len) ==
    IF 0 <= k /\ k < len THEN k + 1
    ELSE IF k < 0 /\ k + len >= 0 THEN k + len + 1
    ELSE 0

\* line 154: chapter_number > len(workflow.outline.chapters)
ChapterNumberRejected(n, len) == n > len

\* len(content_response.split()) of the texts the service returns
WordCount(content) ==
    CASE content = "story" -> 1
      [] content = ErrorText -> 5
      [] OTHER -> 0

GeneratedChapter(n, title, content) ==
    [ chapter_number      |-> n,
      title               |-> title,
      content             |-> content,
      word_count          |-> WordCount(content),
      validation_score    |-> None,
      validation_feedback |-> None ]

\* the update without the search for an existing entry
PutChapter_AlwaysAppend(wf, chapter) ==
    [wf EXCEPT !.chapters = Append(@, chapter),
               !.chapters_completed = @ + 1]

\* the update that counts a replaced entry as a new chapter
PutChapter_CountsReplacement(wf, chapter) ==
    LET at == ExistingChapterIndex(wf.chapters, chapter.chapter_number)
    IN  IF at # 0
        THEN [wf EXCEPT !.chapters[at] = chapter,
                        !.chapters_completed = @ + 1]
        ELSE [wf EXCEPT !.chapters = Append(@, chapter),
                        !.chapters_completed = @ + 1]

\* the update that closes the workflow once every planned chapter is counted
PutChapter_CompletesWorkflow(wf, chapter) ==
    LET at  == ExistingChapterIndex(wf.chapters, chapter.chapter_number)
        put == IF at # 0
               THEN [wf EXCEPT !.chapters[at] = chapter]
               ELSE [wf EXCEPT !.chapters = Append(@, chapter),
                               !.chapters_completed = @ + 1]
    IN  IF put.chapters_completed >= put.total_chapters_planned
        THEN [put EXCEPT !.current_step = "completed", !.is_complete = TRUE]
        ELSE put

\* the update that leaves the validation of the entry it replaces in place
PutChapter_KeepValidation(wf, chapter) ==
    LET at == ExistingChapterIndex(wf.chapters, chapter.chapter_number)
    IN  IF at # 0
        THEN [wf EXCEPT !.chapters[at] =
                 [chapter EXCEPT !.validation_score = wf.chapters[at].validation_score,
                                 !.validation_feedback = wf.chapters[at].validation_feedback]]
        ELSE [wf EXCEPT !.chapters = Append(@, chapter),
                        !.chapters_completed = @ + 1]

\* lines 185-199
PutChapter(wf, chapter) ==
    LET at == ExistingChapterIndex(wf.chapters, chapter.chapter_number)
    IN  IF at # 0
        THEN [wf EXCEPT !.chapters[at] = chapter]
        ELSE [wf EXCEPT !.chapters = Append(@, chapter),
                        !.chapters_completed = @ + 1]

\* the range test made after the update instead of before the calls
GenerateChapterRun_RejectAfterStore(id, n, service) ==
    IF GetWorkflow(id) = None
    THEN [status |-> "not_found", calls |-> 0, wf |-> None]
    ELSE LET wf == workflows[id] IN
         IF wf.outline = None
         THEN [status |-> "not_found", calls |-> 0, wf |-> Some(wf)]
         ELSE LET chs   == wf.outline[1].chapters
                  at    == PyIndex(n - 1, Len(chs))
                  title == IF at = 0 THEN "" ELSE chs[at].title
                  put   == PutChapter(wf, GeneratedChapter(n, title,
                               GenerateStoryComplete(service[3], "story")))
              IN  IF wf.settings = None
                  THEN [status |-> "error", calls |-> 0, wf |-> Some(wf)]
                  ELSE IF ChapterNumberRejected(n, Len(chs))
                  THEN [status |-> "not_found", calls |-> 3, wf |-> Some(put)]
                  ELSE IF at = 0
                  THEN [status |-> "error", calls |-> 0, wf |-> Some(wf)]
                  ELSE [status |-> "ok", calls |-> 3, wf |-> Some(put)]

\* generate_chapter as a function of the store: the workflow after it, how it
\* ended and the number of text-generation calls it made; service gives what
\* each of the three calls meets, the third call's text being the content
GenerateChapterRun(id, n, service) ==
    IF GetWorkflow(id) = None
    THEN [status |-> "not_found", calls |-> 0, wf |-> None]
    ELSE LET wf == workflows[id] IN
         IF wf.outline = None
         THEN [status |-> "not_found", calls |-> 0, wf |-> Some(wf)]
         ELSE LET chs == wf.outline[1].chapters
                  at  == PyIndex(n - 1, Len(chs))
              IN  IF ChapterNumberRejected(n, Len(chs))
                  THEN [status |-> "not_found", calls |-> 0, wf |-> Some(wf)]
                  ELSE IF at = 0
                  \* IndexError at line 157, outside the try
                  THEN [status |-> "error", calls |-> 0, wf |-> Some(wf)]
                  ELSE IF wf.settings = None
                  \* workflow.settings.genre in _generate_chapter_outline
                  THEN [status |-> "error", calls |-> 0, wf |-> Some(wf)]
                  ELSE [ status |-> "ok", calls |-> 3,
                         wf |-> Some(PutChapter(wf,
                                   GeneratedChapter(n, chs[at].title,
                                       GenerateStoryComplete(service[3], "story")))) ]

GenerateChapter(id, n, service) ==
    LET run == GenerateChapterRun(id, n, service) IN
    /\ workflows' = IF run.wf = None THEN workflows ELSE Store(id, run.wf[1])
    /\ result' = Outcome("generate_chapter", id, n, run.status, run.calls)
    /\ UNCHANGED <<batch, issued, tasks>>

----------------------------------------------------------------------------
(* validate_chapter *)

\* the lookup falling back to the first chapter instead of failing
ValidateChapterRun_FirstChapter(id, n, parsed) ==
    IF GetWorkflow(id) = None
    THEN [status |-> "not_found", calls |-> 0, wf |-> None]
    ELSE LET wf    == workflows[id]
             found == ExistingChapterIndex(wf.chapters, n)
             at    == IF found = 0 /\ wf.chapters # <<>> THEN 1 ELSE found
         IN  IF at = 0
             THEN [status |-> "not_found", calls |-> 0, wf |-> Some(wf)]
             ELSE [ status |-> "ok", calls |-> 1,
                    wf |-> Some([wf EXCEPT
                        !.chapters[at].validation_score = Some(parsed.score),
                        !.chapters[at].validation_feedback = Some(parsed.feedback)]) ]

ValidateChapterRun(id, n, parsed) ==
    IF GetWorkflow(id) = None
    THEN [status |-> "not_found", calls |-> 0, wf |-> None]
    ELSE LET wf == workflows[id]
             at == ExistingChapterIndex(wf.chapters, n)
         IN  IF at = 0
             THEN [status |-> "not_found", calls |-> 0, wf |-> Some(wf)]
             ELSE IF wf.outline = None
             \* workflow.outline.chapters on None, line 412
             THEN [status |-> "error", calls |-> 0, wf |-> Some(wf)]
             ELSE IF PyIndex(n - 1, Len(wf.outline[1].chapters)) = 0
             \* IndexError at line 412
             THEN [status |-> "error", calls |-> 0, wf |-> Some(wf)]
             ELSE [ status |-> "ok", calls |-> 1,
                    wf |-> Some([wf EXCEPT
                        !.chapters[at].validation_score = Some(parsed.score),
                        !.chapters[at].validation_feedback = Some(parsed.feedback)]) ]

ValidateChapter(id, n, parsed) ==
    LET run == ValidateChapterRun(id, n, parsed) IN
    /\ workflows' = IF run.wf = None THEN workflows ELSE Store(id, run.wf[1])
    /\ result' = Outcome("validate_chapter", id, n, run.status, run.calls)
    /\ UNCHANGED <<batch, issued, tasks>>

\* the chapter numbers a request names
RequestNumbers == ChapterNumbers

----------------------------------------------------------------------------
(* generate_all_chapters_stream: an async generator; each Pull action is one
   __anext__ of its consumer, running the body from one yield to the next *)

DEFAULT_VALIDATION_THRESHOLD == 7
max_regeneration_attempts == 3

\* validation_threshold as the caller gives it: None, or a value in tenths
Thresholds == {None, Some(9)}

Event(type, status, ch, current, total, attempt, attempts, score) ==
    [ type           |-> type,
      status         |-> status,
      chapter_number |-> ch.chapter_number,
      chapter_title  |-> ch.title,
      current        |-> current,
      total          |-> total,
      attempt        |-> attempt,
      attempts       |-> attempts,
      score          |-> score,
      word_count     |-> None ]

\* "word_count": chapter.word_count, in the events that carry it
WithWordCount(e, chapter) == [e EXCEPT !.word_count = Some(chapter.word_count)]

NoChapter == [chapter_number |-> 0, title |-> ""]

CompleteEvent == Event("complete", "", NoChapter, 0, 0, 0, 0, None)

IdleBatch ==
    [ pc          |-> "idle",
      workflow_id |-> "w1",
      threshold   |-> DEFAULT_VALIDATION_THRESHOLD,
      pending     |-> <<>>,
      i           |-> 0,
      regeneration_attempts |-> 0,
      events      |-> <<>>,
      calls       |-> 0 ]

\* lines 237-242: the outline chapters whose number no entry of chapters has
RECURSIVE ChaptersNumbered(_, _)
ChaptersNumbered(seq, keep) ==
    IF seq = <<>> THEN <<>>
    ELSE IF seq[1].chapter_number \in keep
         THEN <<seq[1]>> \o ChaptersNumbered(Tail(seq), keep)
         ELSE ChaptersNumbered(Tail(seq), keep)

\* the pending list without the filter on the chapters already generated
ChaptersToGenerate_All(wf) == wf.outline[1].chapters

ChaptersToGenerate(wf) ==
    LET existing == {wf.chapters[k].chapter_number : k \in 1..Len(wf.chapters)}
        numbers  == {wf.outline[1].chapters[k].chapter_number :
                        k \in 1..Len(wf.outline[1].chapters)}
    IN  ChaptersNumbered(wf.outline[1].chapters, numbers \ existing)

Emit(b, e) == [b EXCEPT !.events = Append(@, e)]

\* the generating event numbered by the failed tries, not by the try
GeneratingEvent_FailedTries(b, i, attempts) ==
    Event("progress", "generating", b.pending[i], i, Len(b.pending), attempts, 0, None)

GeneratingEvent(b, i, attempts) ==
    Event("progress", "generating", b.pending[i], i, Len(b.pending), attempts + 1, 0, None)

\* The route calls the generator function and returns the streaming response:
\* no line of the generator's body has run yet.
BatchCall(id, threshold) ==
    /\ batch.pc = "idle"
    /\ batch' = [IdleBatch EXCEPT
                    !.pc = "created",
                    !.workflow_id = id,
                    !.threshold = IF threshold = None
                                  THEN DEFAULT_VALIDATION_THRESHOLD
                                  ELSE threshold[1]]
    /\ result' = Outcome("generate_all_chapters", id, 0, "ok", 0)
    /\ UNCHANGED <<workflows, issued, tasks>>

\* lines 222-227: the ValueError leaves the generator, and its consumer, at
\* the first __anext__
StreamRaises ==
    /\ batch' = IdleBatch
    /\ result' = Outcome("generate_all_chapters_stream", batch.workflow_id, 0, "not_found", 0)

\* lines 222-277: from the first line to the first yield
PullStart ==
    /\ batch.pc = "created"
    /\ IF GetWorkflow(batch.workflow_id) = None
       THEN StreamRaises
       ELSE LET wf == workflows[batch.workflow_id] IN
            IF wf.outline = None
            THEN StreamRaises
            ELSE LET b == [batch EXCEPT !.pending = ChaptersToGenerate(wf),
                                        !.i = 1,
                                        !.regeneration_attempts = 0]
                 IN  /\ batch' = IF b.pending = <<>>
                                 THEN [Emit(b, CompleteEvent) EXCEPT !.pc = "complete"]
                                 ELSE [Emit(b, GeneratingEvent(b, 1, 0)) EXCEPT
                                          !.pc = "generating"]
                     /\ UNCHANGED result
    /\ UNCHANGED <<workflows, issued, tasks>>

\* the except branch without its return: after the error event the loop goes
\* on as after a finished chapter
OnException_NoReturn(b) ==
    LET attempts == b.regeneration_attempts + 1
        ch       == b.pending[b.i]
        total    == Len(b.pending)
        c        == [b EXCEPT !.regeneration_attempts = attempts]
    IN  IF attempts <= max_regeneration_attempts
        THEN [Emit(c, Event("progress", "retrying", ch, b.i, total, attempts, 0, None))
                EXCEPT !.pc = "retrying"]
        ELSE [Emit(c, Event("error", "failed", ch, b.i, total, 0, attempts, None))
                EXCEPT !.pc = "completed"]

\* lines 359-386: the except branch, from either call of the try
OnException(b) ==
    LET attempts == b.regeneration_attempts + 1
        ch       == b.pending[b.i]
        total    == Len(b.pending)
        c        == [b EXCEPT !.regeneration_attempts = attempts]
    IN  IF attempts <= max_regeneration_attempts
        THEN [Emit(c, Event("progress", "retrying", ch, b.i, total, attempts, 0, None))
                EXCEPT !.pc = "retrying"]
        ELSE [Emit(c, Event("error", "failed", ch, b.i, total, 0, attempts, None))
                EXCEPT !.pc = "error"]

\* lines 279-297: generate_chapter, then the validating event
PullGenerate(service) ==
    /\ batch.pc = "generating"
    /\ LET ch  == batch.pending[batch.i]
           run == GenerateChapterRun(batch.workflow_id, ch.chapter_number, service)
           b   == [batch EXCEPT !.calls = @ + run.calls]
       IN  IF run.status = "ok"
           THEN /\ workflows' = Store(batch.workflow_id, run.wf[1])
                /\ batch' = [Emit(b, Event("progress", "validating", ch, b.i, Len(b.pending),
                                           b.regeneration_attempts + 1, 0, None))
                                EXCEPT !.pc = "validating"]
           \* the store as the raising call left it
           ELSE /\ workflows' = IF run.wf = None THEN workflows
                                ELSE Store(batch.workflow_id, run.wf[1])
                /\ batch' = OnException(b)
    /\ UNCHANGED <<result, issued, tasks>>

\* chapter.validation_score or 0.0
ScoreOrZero(score) == IF score = None THEN 0 ELSE score[1]

\* the comparison without equality
PassesThreshold_Strict(score, threshold) == score > threshold

\* line 310
PassesThreshold(score, threshold) == score >= threshold

\* a low score on the last try treated as the failure of the chapter
OnValidated_ErrorWhenExhausted(b, chapter) ==
    LET ch    == b.pending[b.i]
        total == Len(b.pending)
        score == ScoreOrZero(chapter.validation_score)
    IN  IF PassesThreshold(score, b.threshold)
        THEN [Emit(b, WithWordCount(Event("progress", "completed", ch, b.i, total, 0,
                                          b.regeneration_attempts + 1, Some(score)),
                                    chapter))
                EXCEPT !.pc = "completed"]
        ELSE LET attempts == b.regeneration_attempts + 1
                 c        == [b EXCEPT !.regeneration_attempts = attempts]
             IN  IF attempts <= max_regeneration_attempts
                 THEN [Emit(c, Event("progress", "regenerating", ch, b.i, total,
                                     attempts, 0, Some(score)))
                         EXCEPT !.pc = "regenerating"]
                 ELSE [Emit(c, Event("error", "failed", ch, b.i, total, 0, attempts, None))
                         EXCEPT !.pc = "error"]

\* a low score that leaves regeneration_attempts as it was
OnValidated_NoCount(b, chapter) ==
    LET ch    == b.pending[b.i]
        total == Len(b.pending)
        score == ScoreOrZero(chapter.validation_score)
    IN  IF PassesThreshold(score, b.threshold)
        THEN [Emit(b, WithWordCount(Event("progress", "completed", ch, b.i, total, 0,
                                          b.regeneration_attempts + 1, Some(score)),
                                    chapter))
                EXCEPT !.pc = "completed"]
        ELSE [Emit(b, Event("progress", "regenerating", ch, b.i, total,
                            b.regeneration_attempts + 1, 0, Some(score)))
                EXCEPT !.pc = "regenerating"]

\* lines 303-357: the outcome of a validated try, `chapter` being the entry
\* found for the chapter after its validation
OnValidated(b, chapter) ==
    LET ch    == b.pending[b.i]
        total == Len(b.pending)
        score == ScoreOrZero(chapter.validation_score)
    IN  IF PassesThreshold(score, b.threshold)
        THEN [Emit(b, WithWordCount(Event("progress", "completed", ch, b.i, total, 0,
                                          b.regeneration_attempts + 1, Some(score)),
                                    chapter))
                EXCEPT !.pc = "completed"]
        ELSE LET attempts == b.regeneration_attempts + 1
                 c        == [b EXCEPT !.regeneration_attempts = attempts]
             IN  IF attempts <= max_regeneration_attempts
                 THEN [Emit(c, Event("progress", "regenerating", ch, b.i, total,
                                     attempts, 0, Some(score)))
                         EXCEPT !.pc = "regenerating"]
                 ELSE [Emit(c, WithWordCount(Event("warning", "completed_with_warning", ch,
                                                   b.i, total, 0, attempts, Some(score)),
                                             chapter))
                         EXCEPT !.pc = "completed_with_warning"]

\* lines 299-357: validate_chapter, then the event of the try's outcome
PullValidate(parsed) ==
    /\ batch.pc = "validating"
    /\ LET ch  == batch.pending[batch.i]
           run == ValidateChapterRun(batch.workflow_id, ch.chapter_number, parsed)
           b   == [batch EXCEPT !.calls = @ + run.calls]
       IN  IF run.status = "ok"
           THEN LET wf == run.wf[1]
                    at == ExistingChapterIndex(wf.chapters, ch.chapter_number)
                IN  /\ workflows' = Store(batch.workflow_id, wf)
                    /\ batch' = OnValidated(b, wf.chapters[at])
           ELSE /\ workflows' = IF run.wf = None THEN workflows
                                ELSE Store(batch.workflow_id, run.wf[1])
                /\ batch' = OnException(b)
    /\ UNCHANGED <<result, issued, tasks>>

\* a retry that gives the chapter up for the next pending one
PullRetry_NextChapter ==
    /\ batch.pc \in {"regenerating", "retrying"}
    /\ LET b == IF batch.i < Len(batch.pending)
                THEN [batch EXCEPT !.i = @ + 1, !.regeneration_attempts = 0]
                ELSE batch
       IN  batch' = [Emit(b, GeneratingEvent(b, b.i, b.regeneration_attempts))
                        EXCEPT !.pc = "generating"]
    /\ UNCHANGED <<workflows, result, issued, tasks>>

\* a retry whose generation calls are made before its generating event is
\* handed to the consumer
PullRetry_CallsBeforeYield ==
    /\ batch.pc \in {"regenerating", "retrying"}
    /\ batch' = [Emit(batch, GeneratingEvent(batch, batch.i, batch.regeneration_attempts))
                    EXCEPT !.pc = "generating", !.calls = @ + 3]
    /\ UNCHANGED <<workflows, result, issued, tasks>>

\* lines 258-277 after a regenerating or retrying event: the while loop again
PullRetry ==
    /\ batch.pc \in {"regenerating", "retrying"}
    /\ batch' = [Emit(batch, GeneratingEvent(batch, batch.i, batch.regeneration_attempts))
                    EXCEPT !.pc = "generating"]
    /\ UNCHANGED <<workflows, result, issued, tasks>>

\* lines 253-277 and 388-394 after a chapter is done: the next pending chapter,
\* or the complete event
PullAdvance ==
    /\ batch.pc \in {"completed", "completed_with_warning"}
    /\ IF batch.i < Len(batch.pending)
       THEN LET b == [batch EXCEPT !.i = @ + 1, !.regeneration_attempts = 0]
            IN  batch' = [Emit(b, GeneratingEvent(b, b.i, 0)) EXCEPT !.pc = "generating"]
       ELSE batch' = [Emit(batch, CompleteEvent) EXCEPT !.pc = "complete"]
    /\ UNCHANGED <<workflows, result, issued, tasks>>

\* the error event followed by the lines after the loop
PullEnd_CompleteAfterError ==
    /\ batch.pc \in {"complete", "error"}
    /\ batch' = IF batch.pc = "error"
                 THEN [Emit(batch, CompleteEvent) EXCEPT !.pc = "complete"]
                 ELSE IdleBatch
    /\ UNCHANGED <<workflows, result, issued, tasks>>

\* after the complete or the error event the body returns: the stream ends
PullEnd ==
    /\ batch.pc \in {"complete", "error"}
    /\ batch' = IdleBatch
    /\ UNCHANGED <<workflows, result, issued, tasks>>

\* one __anext__, the calls it makes meeting one of `calls` and its validation
\* reply parsing to one of `parses`
Pull(calls, parses) ==
    \/ PullStart
    \/ \E service \in calls : PullGenerate(service)
    \/ \E parsed \in parses : PullValidate(parsed)
    \/ PullRetry
    \/ PullAdvance
    \/ PullEnd

----------------------------------------------------------------------------
Init ==
    /\ workflows = <<>>
    /\ result = NoOutcome
    /\ batch = IdleBatch
    /\ issued = {}
    /\ tasks = <<>>

\* Section 5 of the design: the callers serialise the operations on a workflow,
\* so a stage operation starts when no batch run is under way
Serialized == batch.pc = "idle"

\* The requests name the one workflow of the store; before create_workflow
\* its id is unknown to the store.  Every call of the service is answered,
\* with a reply of any shape.
Next ==
    \/ CreateWorkflow("w1")
    \/ \E parsed \in CSParses : Serialized /\ GenerateCharactersAndSettings("w1", parsed)
    \/ \E parsed \in OutlineParses : Serialized /\ GenerateOutline("w1", parsed)
    \/ \E n \in RequestNumbers, service \in AnsweredCalls :
          Serialized /\ GenerateChapter("w1", n, service)
    \/ \E n \in RequestNumbers, parsed \in ValidationParses :
          Serialized /\ ValidateChapter("w1", n, parsed)
    \/ \E threshold \in Thresholds : BatchCall("w1", threshold)
    \/ Pull(AnsweredCalls, ValidationParses)

Spec == Init /\ [][Next]_vars

----------------------------------------------------------------------------
(* The same operations with a service whose calls may fail.  The text of a
   failed call is a reply like another to the parsers of the structured
   stages (CSParses and OutlineParses hold what they return on it); it is the
   content of a chapter when the third call of its generation fails. *)

NextService ==
    \/ CreateWorkflow("w1")
    \/ \E parsed \in CSParses : Serialized /\ GenerateCharactersAndSettings("w1", parsed)
    \/ \E parsed \in OutlineParses : Serialized /\ GenerateOutline("w1", parsed)
    \/ \E n \in RequestNumbers, service \in ChapterCallOutcomes :
          Serialized /\ GenerateChapter("w1", n, service)
    \/ \E n \in RequestNumbers, parsed \in ValidationParsesWithFailure :
          Serialized /\ ValidateChapter("w1", n, parsed)
    \/ \E threshold \in Thresholds : BatchCall("w1", threshold)
    \/ Pull(ChapterCallOutcomes, ValidationParsesWithFailure)

SpecService == Init /\ [][NextService]_vars

----------------------------------------------------------------------------
(* Batch runs on a workflow whose outline stage is done *)

\* the chapter numbers of the outlines: those of ChapterNumbers, and one that
\* no outline of MaxBatchOutline chapters has
BatchChapterNumbers == 0..(MaxBatchOutline + 1)

BatchOutlineReplies ==
    { [text |-> <<"{", "chapters", "}">>, numbers |-> ns] :
        ns \in SeqsUpTo(BatchChapterNumbers, MaxBatchOutline) }

BatchOutlineParses ==
    {ParseOutlineResponse(r) : r \in BatchOutlineReplies} \cup {Some(FallbackOutline)}

\* the workflow after create_workflow, generate_characters_and_settings and
\* generate_outline
WorkflowAfterOutline(cs, outline) ==
    OutlineUpdate(CharactersSettingsUpdate(StoryWorkflow, cs), outline)

InitBatch ==
    /\ \E outline \in BatchOutlineParses :
          workflows = [id \in {"w1"} |->
              WorkflowAfterOutline(
                  ParseCharactersSettingsResponse(<<"{", "chars_one", "settings_ok", "}">>),
                  outline)]
    /\ result = NoOutcome
    /\ batch = IdleBatch
    /\ issued = {"w1"}
    /\ tasks = <<>>

NextBatch ==
    \/ \E threshold \in Thresholds : BatchCall("w1", threshold)
    \/ Pull(AnsweredCalls, ValidationParses)
    \/ \E n \in RequestNumbers, service \in AnsweredCalls :
          Serialized /\ GenerateChapter("w1", n, service)

SpecBatch == InitBatch /\ [][NextBatch]_vars

\* The consumer of the stream (the streaming response) pulls until the stream
\* ends, and every call of the service returns: a pull that can be made is
\* made.
SpecBatchLive == SpecBatch /\ WF_vars(Pull(AnsweredCalls, ValidationParses))

----------------------------------------------------------------------------
(* Batch runs and validations whose reply gives any score *)

\* validation replies: a score below, at and above either threshold, a score
\* above 1, no SCORE: line, a SCORE: line that is not a number
ScoreReplies ==
    { <<"SCORE: 0.5">>, <<"SCORE: 0.7">>, <<"SCORE: 0.9">>, <<"SCORE: 1.5">>,
      <<"text">>, <<"SCORE: high">> }

ScoreParses == {ParseValidationResponse(r) : r \in ScoreReplies}

\* an outline of one chapter, numbered 1
OneChapterOutline ==
    ParseOutlineResponse([text |-> <<"{", "chapters", "}">>, numbers |-> <<1>>])

InitScores ==
    /\ workflows = [id \in {"w1"} |->
          WorkflowAfterOutline(
              ParseCharactersSettingsResponse(<<"{", "chars_one", "settings_ok", "}">>),
              OneChapterOutline)]
    /\ result = NoOutcome
    /\ batch = IdleBatch
    /\ issued = {"w1"}
    /\ tasks = <<>>

NextScores ==
    \/ \E threshold \in Thresholds : BatchCall("w1", threshold)
    \/ Pull(AnsweredCalls, ScoreParses)
    \/ \E parsed \in ScoreParses : Serialized /\ ValidateChapter("w1", 1, parsed)

SpecScores == InitScores /\ [][NextScores]_vars

----------------------------------------------------------------------------
(* Operations under way at once on one workflow.  The event loop runs one
   coroutine at a time and changes coroutine only at an await or a yield; a
   task is a coroutine with the locals it holds at its suspension point.  The
   yield of the event that reports a try's outcome and the yield of the next
   generating event, between which the body touches nothing shared, are one
   suspension. *)

TaskIds == {"t1", "t2"}

IdleTask ==
    [ pc        |-> "idle",
      kind      |-> "none",    \* "single": generate_chapter; "batch": the stream
      n         |-> 0,         \* chapter_number of the call under way
      title     |-> "",        \* chapter_outline.title as the call read it
      awaits    |-> 0,         \* text-generation calls of generate_chapter to come
      stale     |-> FALSE,     \* validate_chapter's `chapter` is no longer in the list
      pending   |-> <<>>,      \* chapters_to_generate
      i         |-> 0,
      regeneration_attempts |-> 0,
      threshold |-> DEFAULT_VALIDATION_THRESHOLD ]

SetTask(t, task) == [tasks EXCEPT ![t] = task]

\* lines 147-157: generate_chapter up to its first await; "ok" with the title
\* it read, or the error it raises
EnterGenerateChapter(task, kind, n) ==
    LET wf  == workflows["w1"]
        chs == wf.outline[1].chapters
        at  == PyIndex(n - 1, Len(chs))
    IN  IF ChapterNumberRejected(n, Len(chs)) \/ at = 0
        THEN [status |-> "error", task |-> task]
        ELSE [status |-> "ok",
              task   |-> [task EXCEPT !.pc = "awaiting", !.kind = kind, !.n = n,
                                      !.title = chs[at].title, !.awaits = 3]]

\* lines 359-386: the except branch of the batch loop
TaskException(task) ==
    LET attempts == task.regeneration_attempts + 1
    IN  IF attempts <= max_regeneration_attempts
        THEN [task EXCEPT !.pc = "generating", !.regeneration_attempts = attempts]
        ELSE IdleTask

\* lines 253-256 and 388-394: the next pending chapter, or the end of the stream
TaskAdvance(task) ==
    IF task.i < Len(task.pending)
    THEN [task EXCEPT !.pc = "generating", !.i = @ + 1, !.regeneration_attempts = 0]
    ELSE IdleTask

\* a request for one chapter arrives while other work is under way
StartSingle(t, n) ==
    /\ tasks[t].pc = "idle"
    /\ tasks' = SetTask(t, EnterGenerateChapter(tasks[t], "single", n).task)
    /\ UNCHANGED <<workflows, result, batch, issued>>

\* lines 222-277: a stream is pulled for the first time
StartBatch(t, threshold) ==
    /\ tasks[t].pc = "idle"
    /\ LET pending == ChaptersToGenerate(workflows["w1"])
       IN  tasks' = SetTask(t,
               IF pending = <<>> THEN IdleTask
               ELSE [IdleTask EXCEPT
                        !.pc = "generating", !.kind = "batch",
                        !.pending = pending, !.i = 1,
                        !.threshold = IF threshold = None
                                      THEN DEFAULT_VALIDATION_THRESHOLD
                                      ELSE threshold[1]])
    /\ UNCHANGED <<workflows, result, batch, issued>>

\* lines 279-285: the stream, pulled at its generating event, enters
\* generate_chapter
PullTry(t) ==
    /\ tasks[t].pc = "generating"
    /\ LET ch    == tasks[t].pending[tasks[t].i]
           enter == EnterGenerateChapter(tasks[t], "batch", ch.chapter_number)
       IN  tasks' = SetTask(t, IF enter.status = "ok" THEN enter.task
                               ELSE TaskException(tasks[t]))
    /\ UNCHANGED <<workflows, result, batch, issued>>

\* a text-generation call of generate_chapter returns; after the third,
\* lines 175-199 run without suspension on the workflow as it is now
CallReturns(t) ==
    /\ tasks[t].pc = "awaiting"
    /\ IF tasks[t].awaits > 1
       THEN /\ tasks' = SetTask(t, [tasks[t] EXCEPT !.awaits = @ - 1])
            /\ UNCHANGED workflows
       ELSE LET wf       == workflows["w1"]
                chapter  == GeneratedChapter(tasks[t].n, tasks[t].title, "story")
                replaced == ExistingChapterIndex(wf.chapters, tasks[t].n) # 0
                done     == IF tasks[t].kind = "single" THEN IdleTask
                            ELSE [tasks[t] EXCEPT !.pc = "validating", !.awaits = 0]
            IN  /\ workflows' = Store("w1", PutChapter(wf, chapter))
                \* the entry a validation under way holds is out of the list
                /\ tasks' = [u \in TaskIds |->
                      IF u = t THEN done
                      ELSE IF /\ replaced
                              /\ tasks[u].pc = "awaiting_validation"
                              /\ tasks[u].n = tasks[t].n
                           THEN [tasks[u] EXCEPT !.stale = TRUE]
                           ELSE tasks[u]]
    /\ UNCHANGED <<result, batch, issued>>

\* lines 299-301 and 402-412: the stream, pulled at its validating event,
\* enters validate_chapter, which holds the chapter's entry across its await
PullValidation(t) ==
    /\ tasks[t].pc = "validating"
    /\ LET wf == workflows["w1"]
           n  == tasks[t].n
       IN  tasks' = SetTask(t,
               IF \/ ExistingChapterIndex(wf.chapters, n) = 0
                  \/ PyIndex(n - 1, Len(wf.outline[1].chapters)) = 0
               THEN TaskException(tasks[t])
               ELSE [tasks[t] EXCEPT !.pc = "awaiting_validation", !.stale = FALSE])
    /\ UNCHANGED <<workflows, result, batch, issued>>

\* lines 425-429 and 303-357: the validation call returns; the score goes to
\* the entry validate_chapter holds, and the loop reads the entry now in the
\* list
ValidationReturns(t, parsed) ==
    /\ tasks[t].pc = "awaiting_validation"
    /\ LET wf    == workflows["w1"]
           at    == ExistingChapterIndex(wf.chapters, tasks[t].n)
           after == IF tasks[t].stale THEN wf
                    ELSE [wf EXCEPT
                            !.chapters[at].validation_score = Some(parsed.score),
                            !.chapters[at].validation_feedback = Some(parsed.feedback)]
           score == ScoreOrZero(after.chapters[at].validation_score)
           task  == [tasks[t] EXCEPT !.stale = FALSE]
           attempts == task.regeneration_attempts + 1
       IN  /\ workflows' = Store("w1", after)
           /\ tasks' = SetTask(t,
                 IF PassesThreshold(score, task.threshold) THEN TaskAdvance(task)
                 ELSE IF attempts <= max_regeneration_attempts
                 THEN [task EXCEPT !.pc = "generating", !.regeneration_attempts = attempts]
                 ELSE TaskAdvance([task EXCEPT !.regeneration_attempts = attempts]))
    /\ UNCHANGED <<result, batch, issued>>

\* the outlines of the workflow the tasks work on: one or two chapters, their
\* numbers as the model's reply gave them (in order, swapped, repeated)
ConcurrentNumberings == { <<1>>, <<1, 2>>, <<2, 1>>, <<1, 1>> }

ConcurrentOutlines ==
    { ParseOutlineResponse([text |-> <<"{", "chapters", "}">>, numbers |-> ns]) :
        ns \in ConcurrentNumberings }

\* the chapter numbers asked for one at a time
ConcurrentRequests == {1, 2}

InitConcurrent ==
    /\ \E outline \in ConcurrentOutlines :
          workflows = [id \in {"w1"} |->
              WorkflowAfterOutline(
                  ParseCharactersSettingsResponse(<<"{", "chars_one", "settings_ok", "}">>),
                  outline)]
    /\ result = NoOutcome
    /\ batch = IdleBatch
    /\ issued = {"w1"}
    /\ tasks = [t \in TaskIds |-> IdleTask]

NextConcurrent ==
    \E t \in TaskIds :
        \/ \E n \in ConcurrentRequests : StartSingle(t, n)
        \/ \E threshold \in Thresholds : StartBatch(t, threshold)
        \/ PullTry(t)
        \/ CallReturns(t)
        \/ PullValidation(t)
        \/ \E parsed \in ValidationParses : ValidationReturns(t, parsed)

SpecConcurrent == InitConcurrent /\ [][NextConcurrent]_vars

----------------------------------------------------------------------------
(* The store of workflows: routes get_workflow, list_workflows, delete_workflow *)

\* the store emptied by a delete
DeleteWorkflow_ClearStore(id) ==
    /\ UNCHANGED <<batch, issued, tasks>>
    /\ IF GetWorkflow(id) = None
       THEN /\ result' = Outcome("delete_workflow", id, 0, "not_found", 0)
            /\ UNCHANGED workflows
       ELSE /\ workflows' = <<>>
            /\ result' = Outcome("delete_workflow", id, 0, "ok", 0)

\* routes.py, delete_workflow: 404 for an id the store does not hold, else
\* del workflows[workflow_id]
DeleteWorkflow(id) ==
    /\ UNCHANGED <<batch, issued, tasks>>
    /\ IF GetWorkflow(id) = None
       THEN /\ result' = Outcome("delete_workflow", id, 0, "not_found", 0)
            /\ UNCHANGED workflows
       ELSE /\ workflows' = [i \in (DOMAIN workflows) \ {id} |-> workflows[i]]
            /\ result' = Outcome("delete_workflow", id, 0, "ok", 0)

\* what a read of the store hands to its caller
Read(op, id, status, returned) ==
    [op |-> op, id |-> id, status |-> status, returned |-> returned]

\* routes.py, get_workflow: 404 for an id the store does not hold
GetWorkflowRoute(id) ==
    /\ result' = Read("get_workflow", id,
                      IF GetWorkflow(id) = None THEN "not_found" ELSE "ok",
                      GetWorkflow(id))
    /\ UNCHANGED <<workflows, batch, issued, tasks>>

\* routes.py, list_workflows: the values of the store, each under its id
ListWorkflows ==
    /\ result' = Read("list_workflows", "", "ok", workflows)
    /\ UNCHANGED <<workflows, batch, issued, tasks>>

\* Any id may be asked for: one the store holds, one it held, one never issued.
NextStore ==
    \/ \E id \in WorkflowIds : CreateWorkflow(id)
    \/ \E id \in WorkflowIds, parsed \in CSParses :
          GenerateCharactersAndSettings(id, parsed)
    \/ \E id \in WorkflowIds : DeleteWorkflow(id)
    \/ \E id \in WorkflowIds : GetWorkflowRoute(id)
    \/ ListWorkflows

SpecStore == Init /\ [][NextStore]_vars

----------------------------------------------------------------------------
(* The parsers, each applied to one reply *)

\* the replies given to the validation parser
ValidationReplies == SeqsUpTo(ValidationLines, MaxValidationLines)

\* a call of a parser: its reply and, once it has returned, what it returned
ParserCall(parser, reply, returned) ==
    [op |-> parser, reply |-> reply, returned |-> returned]

InitParsers ==
    /\ workflows = <<>>
    /\ batch = IdleBatch
    /\ issued = {}
    /\ tasks = <<>>
    /\ \/ \E reply \in CSReplies :
             result = ParserCall("_parse_characters_settings_response", reply, None)
       \/ \E reply \in OutlineReplies :
             result = ParserCall("_parse_outline_response", reply, None)
       \/ \E reply \in ValidationReplies :
             result = ParserCall("_parse_validation_response", reply, None)

ParseCharactersSettings ==
    /\ result.op = "_parse_characters_settings_response"
    /\ result.returned = None
    /\ result' = [result EXCEPT
                     !.returned = Some(ParseCharactersSettingsResponse(result.reply))]
    /\ UNCHANGED <<workflows, batch, issued, tasks>>

ParseOutline ==
    /\ result.op = "_parse_outline_response"
    /\ result.returned = None
    /\ result' = [result EXCEPT !.returned = Some(ParseOutlineResponse(result.reply))]
    /\ UNCHANGED <<workflows, batch, issued, tasks>>

ParseValidation ==
    /\ result.op = "_parse_validation_response"
    /\ result.returned = None
    /\ result' = [result EXCEPT !.returned = Some(ParseValidationResponse(result.reply))]
    /\ UNCHANGED <<workflows, batch, issued, tasks>>

NextParsers ==
    \/ ParseCharactersSettings
    \/ ParseOutline
    \/ ParseValidation

SpecParsers == InitParsers /\ [][NextParsers]_vars

----------------------------------------------------------------------------
(* The claims *)

Known(id) == id \in DOMAIN workflows

\* a step of a stage operation called directly (not from the batch loop)
DirectStep(op) == batch.pc = "idle" /\ batch'.pc = "idle" /\ result'.op = op

\* a step in which generate_chapter made its text-generation calls for chapter n
ChapterGenerated(n) ==
    \/ DirectStep("generate_chapter") /\ result'.calls > 0 /\ result'.chapter_number = n
    \/ /\ batch.pc = "generating"
       /\ batch'.calls > batch.calls
       /\ batch.pending[batch.i].chapter_number = n

\* C1: current_step never moves backward in the order characters_settings <
\* outline < chapter_generation < validation < completed, in any step of any
\* operation.
C1_StepNeverMovesBackward ==
    [][\A id \in WorkflowIds :
          (Known(id) /\ id \in DOMAIN workflows')
          => StepRank(workflows'[id].current_step) >= StepRank(workflows[id].current_step)]_vars

\* C2: generate_chapter with a chapter number outside 1..len(outline.chapters)
\* (0 and below, or above the length) ends not-found, makes no text-generation
\* call and changes nothing of the workflow.
C2_OutOfRangeChapterRejected ==
    [][(/\ DirectStep("generate_chapter")
        /\ Known("w1")
        /\ workflows["w1"].outline # None
        /\ \/ result'.chapter_number < 1
           \/ result'.chapter_number > Len(workflows["w1"].outline[1].chapters))
       => (result'.status = "not_found" /\ result'.calls = 0 /\ workflows' = workflows)]_vars

\* C3: generate_outline on a workflow whose characters are empty or whose
\* settings are absent ends not-found before any text-generation call and
\* leaves the workflow (outline, total_chapters_planned, current_step) as it was.
C3_OutlineNeedsCharactersAndSettings ==
    [][(/\ DirectStep("generate_outline")
        /\ Known("w1")
        /\ (workflows["w1"].characters = <<>> \/ workflows["w1"].settings = None))
       => (result'.status = "not_found" /\ result'.calls = 0 /\ workflows' = workflows)]_vars

\* C3 witness: the outline stage was rejected on a workflow that has settings
\* but an empty list of characters.
C3_Witness ==
    /\ result.op = "generate_outline"
    /\ result.status = "not_found"
    /\ Known("w1")
    /\ workflows["w1"].characters = <<>>
    /\ workflows["w1"].settings # None
    /\ workflows["w1"].current_step = "outline"

\* C4: generating chapter N when an entry numbered N exists replaces that entry
\* at its position, the other entries, the length of chapters and
\* chapters_completed unchanged; generating a number not yet present appends
\* one entry and adds exactly 1 to chapters_completed.
C4_RegenerationReplacesInPlace ==
    [][\A n \in ChapterNumbers :
          (ChapterGenerated(n) /\ Known("w1"))
          => LET old == workflows["w1"].chapters
                 new == workflows'["w1"].chapters
                 at  == ExistingChapterIndex(old, n)
             IN  IF at # 0
                 THEN /\ Len(new) = Len(old)
                      /\ new[at].chapter_number = n
                      /\ \A k \in 1..Len(old) : k # at => new[k] = old[k]
                      /\ workflows'["w1"].chapters_completed
                            = workflows["w1"].chapters_completed
                 ELSE /\ Len(new) = Len(old) + 1
                      /\ SubSeq(new, 1, Len(old)) = old
                      /\ new[Len(new)].chapter_number = n
                      /\ workflows'["w1"].chapters_completed
                            = workflows["w1"].chapters_completed + 1]_vars

\* C4 witness: a chapter was generated again while a later entry exists: its
\* entry, unvalidated again, stands before a validated one, with two entries
\* and chapters_completed = 2.
C4_Witness ==
    /\ result.op = "generate_chapter"
    /\ result.status = "ok"
    /\ Known("w1")
    /\ Len(workflows["w1"].chapters) = 2
    /\ workflows["w1"].chapters_completed = 2
    /\ workflows["w1"].chapters[1].chapter_number = result.chapter_number
    /\ workflows["w1"].chapters[2].validation_score # None

\* C5: in every reachable state the entries of chapters have pairwise distinct
\* numbers, each in 1..len(outline.chapters) of the current outline.
C5_ChaptersMatchOutline ==
    \A id \in DOMAIN workflows :
        LET wf == workflows[id] IN
        /\ \A j, k \in 1..Len(wf.chapters) :
              wf.chapters[j].chapter_number = wf.chapters[k].chapter_number => j = k
        /\ \A k \in 1..Len(wf.chapters) :
              /\ wf.outline # None
              /\ wf.chapters[k].chapter_number \in 1..Len(wf.outline[1].chapters)

\* C6: once the outline is set, no later operation changes or clears it.
C6_OutlineImmutableOnceSet ==
    [][\A id \in WorkflowIds :
          (Known(id) /\ id \in DOMAIN workflows' /\ workflows[id].outline # None)
          => workflows'[id].outline = workflows[id].outline]_vars

\* C7: whenever a chapter generation makes its text-generation calls, the
\* workflow has an outline, settings and at least one character.
C7_ChapterNeedsOutlineSettingsCharacters ==
    [][\A n \in ChapterNumbers :
          (ChapterGenerated(n) /\ Known("w1"))
          => /\ workflows["w1"].outline # None
             /\ workflows["w1"].settings # None
             /\ workflows["w1"].characters # <<>>]_vars

\* C8: generate_characters_and_settings on a workflow whose current_step is
\* past characters_settings fails and leaves the workflow as it was.
C8_CharactersSettingsOnlyFromFirstStep ==
    [][(/\ DirectStep("generate_characters_and_settings")
        /\ Known("w1")
        /\ workflows["w1"].current_step # "characters_settings")
       => (result'.status # "ok" /\ workflows' = workflows)]_vars

\* C9: validate_chapter for a number no entry of chapters has ends not-found,
\* makes no text-generation call and leaves every chapter's score and
\* feedback as they were.
C9_ValidationNeedsChapter ==
    [][(/\ DirectStep("validate_chapter")
        /\ Known("w1")
        /\ \A k \in 1..Len(workflows["w1"].chapters) :
              workflows["w1"].chapters[k].chapter_number # result'.chapter_number)
       => (result'.status = "not_found" /\ result'.calls = 0 /\ workflows' = workflows)]_vars

\* C9 witness: validation was refused for a chapter that does not exist while
\* another chapter exists.
C9_Witness ==
    /\ result.op = "validate_chapter"
    /\ result.status = "not_found"
    /\ Known("w1")
    /\ workflows["w1"].chapters # <<>>
    /\ \A k \in 1..Len(workflows["w1"].chapters) :
          workflows["w1"].chapters[k].chapter_number # result.chapter_number

\* every chapter number of the outline has an entry in chapters
AllGenerated(wf) ==
    \A k \in 1..Len(wf.outline[1].chapters) :
        \E j \in 1..Len(wf.chapters) :
            wf.chapters[j].chapter_number = wf.outline[1].chapters[k].chapter_number

\* C10: a batch run on a workflow all of whose outline chapters are generated
\* emits the complete event and no other, makes no text-generation call and
\* leaves the workflow as it was, and its stream ends after that event.
C10_NothingPendingCompletesAtOnce ==
    [][(/\ Known(batch.workflow_id)
        /\ workflows[batch.workflow_id].outline # None
        /\ AllGenerated(workflows[batch.workflow_id]))
       => /\ batch.pc = "created"
             => /\ batch'.pc = "complete"
                /\ batch'.events = <<CompleteEvent>>
                /\ batch'.calls = 0
                /\ workflows' = workflows
          /\ (batch.pc = "complete" /\ Len(batch.events) = 1)
             => (batch' = IdleBatch /\ workflows' = workflows)]_vars

\* C10 witness: a run on a two-chapter outline with both chapters generated
\* stands at its complete event, the only event, with no call made.
C10_Witness ==
    /\ batch.pc = "complete"
    /\ batch.events = <<CompleteEvent>>
    /\ batch.calls = 0
    /\ Len(workflows["w1"].outline[1].chapters) = 2
    /\ Len(workflows["w1"].chapters) = 2

----------------------------------------------------------------------------
(* The batch run's events *)

\* the positions, in events, of the events with this status for the pending
\* chapter at position k
EventsOf(events, status, k) ==
    {j \in 1..Len(events) : events[j].status = status /\ events[j].current = k}

\* the positions of the generating events, whatever their chapter
GeneratingEvents(events) ==
    {j \in 1..Len(events) : events[j].status = "generating"}

\* C11: in a batch run each pending chapter has at most 4 generating events
\* (tries), the run at most 4 * P of them for its P pending chapters, and a
\* run that is pulled always reaches the end of its stream.
C11_TriesBoundedAndStreamEnds ==
    /\ [](/\ \A k \in 1..Len(batch.pending) :
                Cardinality(EventsOf(batch.events, "generating", k)) <= 4
          /\ Cardinality(GeneratingEvents(batch.events)) <= 4 * Len(batch.pending))
    /\ (batch.pc # "idle") ~> (batch.pc = "idle")

\* C11 witness: a run of two pending chapters stands at its complete event
\* after 8 tries, four for each chapter.
C11_Witness ==
    /\ batch.pc = "complete"
    /\ Len(batch.pending) = 2
    /\ Cardinality(EventsOf(batch.events, "generating", 1)) = 4
    /\ Cardinality(EventsOf(batch.events, "generating", 2)) = 4

\* the try under way raises: generate_chapter, or validate_chapter, ends in an
\* error whatever the service answers
GenerationRaises ==
    /\ batch.pc = "generating"
    /\ \A service \in ChapterCallOutcomes :
          GenerateChapterRun(batch.workflow_id,
                             batch.pending[batch.i].chapter_number, service).status # "ok"

ValidationRaises ==
    /\ batch.pc = "validating"
    /\ \A parsed \in ValidationParsesWithFailure :
          ValidateChapterRun(batch.workflow_id,
                             batch.pending[batch.i].chapter_number, parsed).status # "ok"

LastEvent(b) == b.events[Len(b.events)]

\* C12: a try that raises adds 1 to the attempt counter and one event to the
\* stream: while the counter is at most 3 a retrying event, after which the
\* same chapter gets its next generating event; otherwise an error event,
\* after which the stream ends with no further event (no complete event, no
\* event of a later pending chapter).
C12_RaisingTryRetriesThenStops ==
    [][/\ (GenerationRaises \/ ValidationRaises)
          => /\ batch'.regeneration_attempts = batch.regeneration_attempts + 1
             /\ batch'.i = batch.i
             /\ Len(batch'.events) = Len(batch.events) + 1
             /\ LastEvent(batch').chapter_number = batch.pending[batch.i].chapter_number
             /\ IF batch'.regeneration_attempts <= 3
                THEN /\ batch'.pc = "retrying"
                     /\ LastEvent(batch').type = "progress"
                     /\ LastEvent(batch').status = "retrying"
                ELSE /\ batch'.pc = "error"
                     /\ LastEvent(batch').type = "error"
       /\ batch.pc = "retrying"
          => /\ batch'.i = batch.i
             /\ batch'.events = Append(batch.events, LastEvent(batch'))
             /\ LastEvent(batch').status = "generating"
             /\ LastEvent(batch').chapter_number = batch.pending[batch.i].chapter_number
       /\ (batch.events # <<>> /\ LastEvent(batch).type = "error")
          => (batch'.pc = "idle" /\ batch'.events = <<>>)]_vars

\* C12 witness: the first of two pending chapters raised on its four tries:
\* three retrying events, then the error event, the second chapter untried.
C12_Witness ==
    /\ batch.pc = "error"
    /\ batch.i = 1
    /\ Len(batch.pending) = 2
    /\ Cardinality(EventsOf(batch.events, "retrying", 1)) = 3
    /\ LastEvent(batch).type = "error"
    /\ EventsOf(batch.events, "generating", 2) = {}

\* C13: when a batch run stands at its error event for chapter N, chapters
\* has no entry numbered N.
C13_FailedChapterAbsent ==
    (batch.pc = "error" /\ Known(batch.workflow_id))
    => \A k \in 1..Len(workflows[batch.workflow_id].chapters) :
          workflows[batch.workflow_id].chapters[k].chapter_number
              # LastEvent(batch).chapter_number

\* C13 witness: the run generated its first pending chapter and ended with the
\* error event for its second, of which chapters has no entry.
C13_Witness ==
    /\ batch.pc = "error"
    /\ batch.i = 2
    /\ LastEvent(batch).type = "error"
    /\ Len(workflows["w1"].chapters) >= 1
    /\ \A k \in 1..Len(workflows["w1"].chapters) :
          workflows["w1"].chapters[k].chapter_number # LastEvent(batch).chapter_number

\* the entry of chapters for the pending chapter under way, in workflow wf
CurrentEntry(wf) ==
    wf.chapters[ExistingChapterIndex(wf.chapters, batch.pending[batch.i].chapter_number)]

\* the validation of the try under way ends with a score below the threshold
LowScore ==
    /\ batch.pc = "validating"
    /\ ~ValidationRaises
    /\ ScoreOrZero(CurrentEntry(workflows'[batch.workflow_id]).validation_score)
          < batch.threshold

\* C14: when the fourth try of a chapter whose three earlier tries scored low
\* scores below the threshold too, the event is completed_with_warning and not
\* an error, the draft of that try stays in chapters with its score, and the
\* next pull brings the first generating event of the next pending chapter, or
\* the complete event after the last one.
C14_LowScoresEndWithWarning ==
    [][/\ (LowScore /\ Cardinality(EventsOf(batch.events, "regenerating", batch.i)) = 3)
          => /\ batch'.pc = "completed_with_warning"
             /\ LastEvent(batch').status = "completed_with_warning"
             /\ LastEvent(batch').type # "error"
             /\ LastEvent(batch').chapter_number = batch.pending[batch.i].chapter_number
             /\ Len(batch'.events) = Len(batch.events) + 1
             /\ CurrentEntry(workflows'[batch.workflow_id]).content
                   = CurrentEntry(workflows[batch.workflow_id]).content
             /\ LastEvent(batch').score
                   = CurrentEntry(workflows'[batch.workflow_id]).validation_score
       /\ batch.pc = "completed_with_warning"
          => /\ workflows' = workflows
             /\ IF batch.i < Len(batch.pending)
                THEN /\ batch'.i = batch.i + 1
                     /\ LastEvent(batch').status = "generating"
                     /\ LastEvent(batch').current = batch.i + 1
                     /\ LastEvent(batch').attempt = 1
                ELSE /\ batch'.pc = "complete"
                     /\ LastEvent(batch') = CompleteEvent]_vars

\* C14 witness: the first of two pending chapters scored low on its four
\* tries and stands at completed_with_warning, its last draft in chapters.
C14_Witness ==
    /\ batch.pc = "completed_with_warning"
    /\ batch.i = 1
    /\ Len(batch.pending) = 2
    /\ Cardinality(EventsOf(batch.events, "regenerating", 1)) = 3
    /\ CurrentEntry(workflows["w1"]).validation_score = Some(5)

\* the positions of the terminal events
TerminalEvents(events) ==
    {j \in 1..Len(events) : events[j].type \in {"complete", "error"}}

\* the stream, begun, ends in this step
StreamEnds == batch.pc \notin {"idle", "created"} /\ batch'.pc = "idle"

\* C15: a stream never holds an event after a terminal event (type complete or
\* error); when it ends it holds exactly one terminal event, its last event;
\* and a complete event is there only if every pending chapter has a completed
\* or a completed_with_warning event.
C15_OneTerminalEventLast ==
    [][/\ TerminalEvents(batch'.events) \subseteq {Len(batch'.events)}
       /\ StreamEnds
          => /\ TerminalEvents(batch.events) = {Len(batch.events)}
             /\ batch.events # <<>>
       /\ (batch'.events # <<>> /\ LastEvent(batch').type = "complete")
          => \A k \in 1..Len(batch'.pending) :
                \/ EventsOf(batch'.events, "completed", k) # {}
                \/ EventsOf(batch'.events, "completed_with_warning", k) # {}]_vars

\* C15 witness: a run of two pending chapters stands at its complete event,
\* one chapter completed, the other completed with a warning.
C15_Witness ==
    /\ batch.pc = "complete"
    /\ Len(batch.pending) = 2
    /\ EventsOf(batch.events, "completed", 1) # {}
    /\ EventsOf(batch.events, "completed_with_warning", 2) # {}
    /\ TerminalEvents(batch.events) = {Len(batch.events)}

\* the positions of the events of a pending chapter (the complete event names
\* none)
ChapterEvents(events) == {j \in 1..Len(events) : events[j].type # "complete"}

\* C16: in the events of a run the position 'current' never decreases, it is
\* the position of a pending chapter, and every event of the chapter at
\* position k + 1 comes after a completed or completed_with_warning event of
\* the chapter at position k.
C16_ChaptersInOrderOneAtATime ==
    LET events == batch.events IN
    /\ \A j \in ChapterEvents(events) :
          /\ events[j].current \in 1..Len(batch.pending)
          /\ events[j].chapter_number = batch.pending[events[j].current].chapter_number
    /\ \A j, l \in ChapterEvents(events) :
          j < l => events[j].current <= events[l].current
    /\ \A l \in ChapterEvents(events) :
          events[l].current > 1
          => \E j \in 1..(l - 1) :
                /\ events[j].current = events[l].current - 1
                /\ events[j].status \in {"completed", "completed_with_warning"}

\* C16 witness: the second pending chapter is being retried while the first
\* one ended with completed_with_warning.
C16_Witness ==
    /\ batch.pc = "regenerating"
    /\ batch.i = 2
    /\ EventsOf(batch.events, "completed_with_warning", 1) # {}
    /\ EventsOf(batch.events, "regenerating", 2) # {}

\* the outcomes of the three calls of a generation of which one at least fails
FailingCalls == {service \in ChapterCallOutcomes : \E k \in 1..3 : service[k] = "fails"}

\* C17: in a batch run, a try one of whose text-generation calls fails (a
\* call of the generation, or the validation call) is followed by a retrying
\* or an error event, with the attempt counted, and stores no content: the
\* chapters are as before the call.
C17_ServiceFailureIsFailedAttempt ==
    [][/\ \A service \in FailingCalls :
             (PullGenerate(service) /\ batch'.calls > batch.calls)
             => /\ batch'.pc \in {"retrying", "error"}
                /\ batch'.regeneration_attempts = batch.regeneration_attempts + 1
                /\ workflows' = workflows
       /\ (PullValidate(ParseValidationResponse(ValidationErrorReply))
             /\ batch'.calls > batch.calls)
          => /\ batch'.pc \in {"retrying", "error"}
             /\ batch'.regeneration_attempts = batch.regeneration_attempts + 1]_vars

\* a stage operation called directly made a text-generation call, and the
\* call failed: the operation worked on the text of the failed call
FailedStageCall ==
    /\ Known("w1")
    /\ result'.calls > 0
    /\ \/ \E reply \in ServiceErrorReplies :
             GenerateCharactersAndSettings("w1", ParseCharactersSettingsResponse(reply))
       \/ \E reply \in OutlineErrorReplies :
             GenerateOutline("w1", ParseOutlineResponse(reply))
       \/ \E n \in RequestNumbers, service \in FailingCalls :
             GenerateChapter("w1", n, service)
       \/ \E n \in RequestNumbers :
             ValidateChapter("w1", n, ParseValidationResponse(ValidationErrorReply))

\* C18: a stage operation (characters/settings, outline, single chapter,
\* validation) whose text-generation call fails does not end in success,
\* leaves current_step where it was and stores nothing: characters,
\* settings, outline and chapters are as before.
C18_StageServiceFailurePropagates ==
    [][FailedStageCall
       => /\ result'.status # "ok"
          /\ workflows'["w1"].current_step = workflows["w1"].current_step
          /\ workflows'["w1"].characters = workflows["w1"].characters
          /\ workflows'["w1"].settings = workflows["w1"].settings
          /\ workflows'["w1"].outline = workflows["w1"].outline
          /\ workflows'["w1"].chapters = workflows["w1"].chapters]_vars

\* the try under way meets a not-found condition: generate_chapter, or
\* validate_chapter, raises its ValueError
NotFoundInTry ==
    \/ /\ batch.pc = "generating"
       /\ \A service \in ChapterCallOutcomes :
             GenerateChapterRun(batch.workflow_id, batch.pending[batch.i].chapter_number,
                                service).status = "not_found"
    \/ /\ batch.pc = "validating"
       /\ \A parsed \in ValidationParsesWithFailure :
             ValidateChapterRun(batch.workflow_id, batch.pending[batch.i].chapter_number,
                                parsed).status = "not_found"

\* C19: a not-found condition met in a try of a batch run is not retried: no
\* retrying event follows it and the chapter gets no further generating event.
C19_NotFoundNeverRetried ==
    [][NotFoundInTry
       => /\ batch'.pc # "retrying"
          /\ EventsOf(batch'.events, "retrying", batch.i)
                = EventsOf(batch.events, "retrying", batch.i)]_vars

\* the route of the batch operation is called for a workflow the store does
\* not know or that has no outline
BatchCallWithoutOutline ==
    /\ batch.pc = "idle"
    /\ result'.op = "generate_all_chapters"
    /\ \/ ~Known("w1")
       \/ workflows["w1"].outline = None

\* C20: the batch operation called for an unknown workflow id, or for a
\* workflow with no outline, ends not-found for its caller, as the stage
\* operations do, and no stream of events is begun.
C20_BatchWithoutOutlineNotFound ==
    [][BatchCallWithoutOutline
       => (result'.status = "not_found" /\ batch'.pc = "idle")]_vars

----------------------------------------------------------------------------
(* The parsers and the shape of the reply *)

\* outline replies that hold no parseable JSON object: no brace pair (text
\* only, an opening brace only, a closing brace only), a closing brace before
\* the opening one, text between the braces, chapters with missing fields
UnparseableOutlineReplies ==
    { [text |-> t, numbers |-> <<>>] :
        t \in { <<"text">>, <<"{", "text">>, <<"text", "}">>, <<"}", "{">>,
                <<"{", "text", "}">>, <<"{", "chapters_bad", "}">> } }

\* C21: the outline stage, its prerequisites present, succeeds whatever the
\* shape of the reply and stores an outline; on a reply that cannot be parsed
\* the stored outline is the placeholder of one chapter numbered 1.
C21_OutlineStageAcceptsAnyReply ==
    [][(Known("w1") /\ ~OutlineGuardFails(workflows["w1"]))
       => /\ DirectStep("generate_outline")
             => (result'.status = "ok" /\ workflows'["w1"].outline # None)
          /\ \A reply \in UnparseableOutlineReplies :
                GenerateOutline("w1", ParseOutlineResponse(reply))
                => workflows'["w1"].outline = Some(FallbackOutline)]_vars

\* a call of the named parser that has returned
Returned(parser) == result.op = parser /\ result.returned # None

\* the first "{" and the last "}" of a reply, 0 when there is none
FirstOpen(reply) ==
    IF \E i \in DOMAIN reply : reply[i] = "{"
    THEN CHOOSE i \in DOMAIN reply :
            reply[i] = "{" /\ \A j \in DOMAIN reply : reply[j] = "{" => i <= j
    ELSE 0
LastClose(reply) ==
    IF \E i \in DOMAIN reply : reply[i] = "}"
    THEN CHOOSE i \in DOMAIN reply :
            reply[i] = "}" /\ \A j \in DOMAIN reply : reply[j] = "}" => j <= i
    ELSE 0

\* the member of the object that counts for a key: the last of its tokens
\* between the braces
CountingMember(reply, tokens, token) ==
    \E i \in (FirstOpen(reply) + 1)..(LastClose(reply) - 1) :
        /\ reply[i] = token
        /\ \A j \in (i + 1)..(LastClose(reply) - 1) : reply[j] \notin tokens

\* a characters/settings reply that is not the expected JSON object: no opening
\* brace, no closing brace, the closing brace before the opening one, text
\* between the braces that is not JSON, or an object whose character record or
\* settings record lacks a required field (an object without a "settings"
\* member has a settings record with no field at all)
NotExpectedObject(reply) ==
    \/ FirstOpen(reply) = 0
    \/ LastClose(reply) = 0
    \/ LastClose(reply) < FirstOpen(reply)
    \/ \E i \in (FirstOpen(reply) + 1)..(LastClose(reply) - 1) :
          reply[i] \notin CSFieldTokens
    \/ CountingMember(reply, CharFieldTokens, "chars_bad")
    \/ ~CountingMember(reply, SettingsFieldTokens, "settings_ok")

\* C22: the characters/settings parser returns for every reply, and for every
\* reply that is not the expected JSON object it returns exactly one character,
\* whose role is protagonist, and settings whose genre is "Fiction".
C22_UnparseableReplyGivesFallback ==
    /\ (result.op = "_parse_characters_settings_response" /\ result.returned = None)
       => ENABLED ParseCharactersSettings
    /\ (Returned("_parse_characters_settings_response")
        /\ NotExpectedObject(result.reply))
       => /\ Len(result.returned[1].characters) = 1
          /\ result.returned[1].characters[1].role = "protagonist"
          /\ result.returned[1].settings.genre = "Fiction"

\* an object whose character record is whole and whose settings record lacks a
\* required field has been answered with the fallback
C22_Witness ==
    /\ Returned("_parse_characters_settings_response")
    /\ result.reply = <<"{", "chars_one", "settings_bad", "}">>
    /\ result.returned = Some(CSFallback)

\* a validation reply in which no line starts with SCORE:
NoScoreLine(reply) == \A i \in DOMAIN reply : ~StartsWithScore(reply[i])

\* the first line of a reply that starts with FEEDBACK:, 0 when there is none
FirstFeedback(reply) ==
    IF \E i \in DOMAIN reply : StartsWithFeedback(reply[i])
    THEN CHOOSE i \in DOMAIN reply :
            /\ StartsWithFeedback(reply[i])
            /\ \A j \in 1..(i - 1) : ~StartsWithFeedback(reply[j])
    ELSE 0

\* the feedback text of a reply scanned without error: the whole reply when no
\* line starts with FEEDBACK:, else the remainder of the first such line and
\* all lines after it
FeedbackText(reply) ==
    IF FirstFeedback(reply) = 0 THEN reply
    ELSE <<FeedbackOf(reply[FirstFeedback(reply)])>>
         \o SubSeq(reply, FirstFeedback(reply) + 1, Len(reply))

\* C23 as stated: a reply in which no line starts with SCORE: gets score 0.7
\* and the complete reply as feedback.
C23_NoScoreLineGivesFailureScore ==
    (Returned("_parse_validation_response") /\ NoScoreLine(result.reply))
    => /\ result.returned[1].score = 7
       /\ result.returned[1].feedback = result.reply

\* C23: a reply in which no line starts with SCORE: gets score 0.8; its
\* feedback is the complete reply when no line starts with FEEDBACK: either,
\* and otherwise the text from the first FEEDBACK: line on, without the marker.
C23_NoScoreLineGivesDefaultScore ==
    (Returned("_parse_validation_response") /\ NoScoreLine(result.reply))
    => /\ result.returned[1].score = 8
       /\ result.returned[1].feedback = FeedbackText(result.reply)

C23_Witness ==
    /\ Returned("_parse_validation_response")
    /\ result.reply = <<"text", "text">>
    /\ result.returned = Some([score |-> 8, feedback |-> <<"text", "text">>])

\* the lines of a reply that the scan reads for a score: those before the
\* first FEEDBACK: line
ScannedLines(reply) ==
    IF FirstFeedback(reply) = 0 THEN reply
    ELSE SubSeq(reply, 1, FirstFeedback(reply) - 1)

\* scanning fails: a scanned SCORE: line whose remainder is not a number
ScanFails(reply) ==
    \E i \in DOMAIN ScannedLines(reply) :
        StartsWithScore(reply[i]) /\ FloatOf(reply[i]) = -1

\* C24: two distinct defaults.  A reply scanned without error whose scanned
\* lines hold no SCORE: line gets 0.8; a reply whose scan fails on a SCORE:
\* line that is not a number gets 0.7 and the full raw reply as feedback; a
\* SCORE: line after the FEEDBACK: line changes neither the score nor the
\* outcome of the scan, the score being the last one before the FEEDBACK: line.
C24_TwoDefaultsAndLateScoreIgnored ==
    Returned("_parse_validation_response")
    => LET reply   == result.reply
           scanned == ScannedLines(reply)
           out     == result.returned[1]
       IN  /\ ScanFails(reply)
              => (out.score = 7 /\ out.feedback = reply)
           /\ (~ScanFails(reply) /\ NoScoreLine(scanned))
              => (out.score = 8 /\ out.feedback = FeedbackText(reply))
           /\ (~ScanFails(reply) /\ ~NoScoreLine(scanned))
              => \E i \in DOMAIN scanned :
                    /\ StartsWithScore(scanned[i])
                    /\ \A j \in (i + 1)..Len(scanned) : ~StartsWithScore(scanned[j])
                    /\ out.score = FloatOf(scanned[i])
                    /\ out.feedback = FeedbackText(reply)

\* a SCORE: line that is not a number, after the FEEDBACK: line, has been
\* ignored: the score is the default of the scan without error
C24_Witness ==
    /\ Returned("_parse_validation_response")
    /\ result.reply = <<"FEEDBACK: fine", "SCORE: high">>
    /\ result.returned = Some([score |-> 8, feedback |-> <<"fine", "SCORE: high">>])

\* a SCORE: line that is not a number, before the FEEDBACK: line, has made the
\* scan fail
C24_FailureWitness ==
    /\ Returned("_parse_validation_response")
    /\ result.reply = <<"SCORE: high", "FEEDBACK: fine">>
    /\ result.returned = Some([score |-> 7,
                               feedback |-> <<"SCORE: high", "FEEDBACK: fine">>])

----------------------------------------------------------------------------
(* The store *)

\* C25: deleting an id the store does not hold yields not-found and leaves the
\* store as it was; deleting an id it holds removes that workflow and no other;
\* an id once removed stays absent, so a later get of it returns nothing and a
\* later list omits it, while the list holds every workflow of the store.
C25_DeleteRemovesExactlyOne ==
    [][\A id \in WorkflowIds :
          /\ (~Known(id) /\ DeleteWorkflow(id))
             => (result'.status = "not_found" /\ workflows' = workflows)
          /\ (Known(id) /\ DeleteWorkflow(id))
             => /\ result'.status = "ok"
                /\ DOMAIN workflows' = (DOMAIN workflows) \ {id}
                /\ \A other \in DOMAIN workflows' : workflows'[other] = workflows[other]
          /\ (id \in issued /\ ~Known(id))
             => /\ id \notin DOMAIN workflows'
                /\ (result'.op = "get_workflow" /\ result'.id = id)
                   => (result'.status = "not_found" /\ result'.returned = None)
                /\ result'.op = "list_workflows"
                   => (id \notin DOMAIN result'.returned /\ result'.returned = workflows)
      ]_vars

\* one of two workflows has been deleted and the other, with its characters,
\* is what the list returns
C25_Witness ==
    /\ issued = {"w1", "w2"}
    /\ DOMAIN workflows = {"w2"}
    /\ workflows["w2"].settings # None
    /\ result.op = "list_workflows"
    /\ result.returned = workflows

----------------------------------------------------------------------------
(* Scores *)

\* C26: every chapter's validation_score is absent or a value of [0, 1] (in
\* tenths, 0..10), whatever number the reply puts after SCORE:.
C26_ScoreWithinUnitRange ==
    \A id \in DOMAIN workflows :
        \A k \in 1..Len(workflows[id].chapters) :
            LET score == workflows[id].chapters[k].validation_score
            IN  score = None \/ (0 <= score[1] /\ score[1] <= 10)

\* the validation of the try under way ends with a score at or above the
\* threshold
PassingScore ==
    /\ batch.pc = "validating"
    /\ ~ValidationRaises
    /\ ScoreOrZero(CurrentEntry(workflows'[batch.workflow_id]).validation_score)
          >= batch.threshold

\* no generating event of a chapter comes after its completed event
NoTryAfterCompleted(events) ==
    \A j \in 1..Len(events) : \A m \in (j + 1)..Len(events) :
        events[j].status = "completed"
        => ~(events[m].status = "generating" /\ events[m].current = events[j].current)

\* C27: the threshold is 0.7 when the caller supplies none; a try whose score
\* is greater than or equal to the threshold emits a completed event (type
\* progress) with that score and the word count of the chapter's entry; and no
\* generating event of that chapter follows its completed event.
C27_PassingTryCompletesChapter ==
    [][/\ BatchCall("w1", None) => batch'.threshold = 7
       /\ PassingScore
          => LET entry == CurrentEntry(workflows'[batch.workflow_id])
             IN  /\ batch'.pc = "completed"
                 /\ Len(batch'.events) = Len(batch.events) + 1
                 /\ LastEvent(batch').type = "progress"
                 /\ LastEvent(batch').status = "completed"
                 /\ LastEvent(batch').chapter_number = entry.chapter_number
                 /\ LastEvent(batch').score = entry.validation_score
                 /\ LastEvent(batch').word_count = Some(entry.word_count)
       /\ NoTryAfterCompleted(batch'.events)
      ]_vars

\* with no threshold from the caller, a try that scored exactly 0.7 has
\* completed the chapter, and the run stands after its complete event
C27_Witness ==
    /\ batch.pc = "complete"
    /\ batch.threshold = 7
    /\ Len(batch.events) = 4
    /\ batch.events[3].status = "completed"
    /\ batch.events[3].score = Some(7)
    /\ batch.events[3].word_count = Some(1)
    /\ CurrentEntry(workflows["w1"]).validation_score = Some(7)

\* the tries made so far for the chapter under way: its generating events
TriesMade == Cardinality(EventsOf(batch.events, "generating", batch.i))

\* C28: a try that scores below the threshold while fewer than 4 tries have
\* been made emits a regenerating event with that score; the next pull emits a
\* generating event for the same chapter, the draft still stored; and the next
\* successful generation puts its draft in the place of the chapter's entry:
\* the list keeps its length, the entry has no score and no feedback, and the
\* other entries are as they were.
C28_LowScoreRegeneratesAndOverwrites ==
    [][/\ (LowScore /\ TriesMade < 4)
          => /\ batch'.pc = "regenerating"
             /\ Len(batch'.events) = Len(batch.events) + 1
             /\ LastEvent(batch').type = "progress"
             /\ LastEvent(batch').status = "regenerating"
             /\ LastEvent(batch').chapter_number = batch.pending[batch.i].chapter_number
             /\ LastEvent(batch').score
                   = CurrentEntry(workflows'[batch.workflow_id]).validation_score
       /\ batch.pc = "regenerating"
          => /\ batch'.pc = "generating"
             /\ batch'.i = batch.i
             /\ Len(batch'.events) = Len(batch.events) + 1
             /\ LastEvent(batch').status = "generating"
             /\ LastEvent(batch').chapter_number = batch.pending[batch.i].chapter_number
             /\ workflows' = workflows
       /\ (batch.pc = "generating" /\ batch'.pc = "validating")
          => LET old == workflows[batch.workflow_id].chapters
                 new == workflows'[batch.workflow_id].chapters
                 at  == ExistingChapterIndex(old, batch.pending[batch.i].chapter_number)
             IN  at # 0
                 => /\ Len(new) = Len(old)
                    /\ new[at].chapter_number = old[at].chapter_number
                    /\ new[at].validation_score = None
                    /\ new[at].validation_feedback = None
                    /\ \A k \in 1..Len(old) : k # at => new[k] = old[k]
      ]_vars

\* the second try of a chapter has been generated after a low score: the one
\* entry of the chapter has no score
C28_Witness ==
    /\ batch.pc = "validating"
    /\ batch.regeneration_attempts = 1
    /\ LastEvent(batch).status = "validating"
    /\ Cardinality(EventsOf(batch.events, "regenerating", batch.i)) = 1
    /\ Len(workflows["w1"].chapters) = 1
    /\ CurrentEntry(workflows["w1"]).validation_score = None

\* the scores the tries of the chapter under way obtained in this run, as
\* their events report them
TryScores ==
    { batch.events[j].score[1] :
        j \in { m \in 1..Len(batch.events) :
                  /\ batch.events[m].current = batch.i
                  /\ batch.events[m].status \in {"regenerating", "completed_with_warning"} } }

\* C29: when a chapter ends with completed_with_warning, the entry kept in
\* chapters has the highest of the scores the chapter's tries obtained in this
\* run.
C29_WarningKeepsBestDraft ==
    batch.pc = "completed_with_warning"
    => \A score \in TryScores :
          ScoreOrZero(CurrentEntry(workflows[batch.workflow_id]).validation_score) >= score

----------------------------------------------------------------------------
(* Events *)

\* C30: every event of a stream has type progress, complete or error: progress
\* for the statuses generating, validating, completed, regenerating, retrying
\* and completed_with_warning, complete or error for the terminal event.
C30_ThreeEventTypes ==
    \A j \in 1..Len(batch.events) :
        LET e == batch.events[j]
        IN  /\ e.type \in {"progress", "complete", "error"}
            /\ e.status \in {"generating", "validating", "completed", "regenerating",
                             "retrying", "completed_with_warning"}
               => e.type = "progress"

----------------------------------------------------------------------------
(* The stream is lazy *)

\* C31: the route hands over a generator none of whose body has run; a step
\* that makes text-generation calls starts from a state whose last event,
\* already handed to the consumer, is the generating event of the try (for its
\* at most three generation calls) or its validating event (for the one
\* validation call); and the step that emits a generating event makes no call.
C31_EventsBeforeCalls ==
    [][/\ (batch.pc = "idle" /\ batch'.pc = "created")
          => (batch'.events = <<>> /\ batch'.calls = 0)
       /\ batch'.calls > batch.calls
          => /\ batch.pc \in {"generating", "validating"}
             /\ batch.events # <<>>
             /\ LastEvent(batch).status = batch.pc
             /\ LastEvent(batch).chapter_number = batch.pending[batch.i].chapter_number
             /\ batch'.calls - batch.calls <= (IF batch.pc = "generating" THEN 3 ELSE 1)
       /\ (Len(batch'.events) > Len(batch.events)
           /\ LastEvent(batch').status = "generating")
          => batch'.calls = batch.calls
      ]_vars

\* the generating event of a second try is out, and the only calls made are
\* the four of the first try
C31_Witness ==
    /\ batch.pc = "generating"
    /\ batch.regeneration_attempts = 1
    /\ LastEvent(batch).status = "generating"
    /\ LastEvent(batch).attempt = 2
    /\ batch.calls = 4

----------------------------------------------------------------------------
(* The step and the counters of a workflow *)

\* C32: no operation sets current_step to validation or completed, and
\* is_complete stays false: current_step is always one of characters_settings,
\* outline, chapter_generation.
C32_StepNeverReachesValidation ==
    \A id \in DOMAIN workflows :
        /\ workflows[id].current_step
              \in {"characters_settings", "outline", "chapter_generation"}
        /\ workflows[id].is_complete = FALSE

\* a batch run stands at its complete event, having generated every chapter
\* of the outline
C32_Witness ==
    /\ Known("w1")
    /\ batch.pc = "complete"
    /\ Len(batch.events) > 1
    /\ workflows["w1"].outline # None
    /\ workflows["w1"].chapters # <<>>
    /\ AllGenerated(workflows["w1"])
    /\ workflows["w1"].current_step = "chapter_generation"

\* C33: an outline stage that succeeds sets current_step to chapter_generation
\* and total_chapters_planned to the number of chapters of the outline it
\* stored; and whenever a workflow has an outline, total_chapters_planned is
\* the number of that outline's chapters.
C33_PlannedEqualsOutlineLength ==
    [][/\ (DirectStep("generate_outline") /\ result'.status = "ok")
          => /\ workflows'["w1"].outline # None
             /\ workflows'["w1"].current_step = "chapter_generation"
             /\ workflows'["w1"].total_chapters_planned
                   = Len(workflows'["w1"].outline[1].chapters)
       /\ \A id \in DOMAIN workflows' :
             workflows'[id].outline # None
             => workflows'[id].total_chapters_planned
                   = Len(workflows'[id].outline[1].chapters)
      ]_vars

\* a second outline, of no chapter, has replaced one of one chapter
C33_Witness ==
    /\ Known("w1")
    /\ result.op = "generate_outline"
    /\ result.status = "ok"
    /\ workflows["w1"].outline # None
    /\ workflows["w1"].outline[1].chapters = <<>>
    /\ workflows["w1"].total_chapters_planned = 0
    /\ workflows["w1"].chapters # <<>>

----------------------------------------------------------------------------
(* The numbering of the tries *)

\* the generating events of the pending chapter at position k among the first
\* n events
TriesBefore(events, n, k) ==
    {m \in 1..n : events[m].status = "generating" /\ events[m].current = k}

\* C34: the completed, completed_with_warning and error events of a chapter
\* carry as attempts the number of generating events emitted for that chapter
\* in the run, and the attempt of a generating event is its rank among the
\* chapter's generating events: 1, 2, 3, 4 without gap or repeat.
C34_AttemptsCountTries ==
    \A j \in 1..Len(batch.events) :
        LET e == batch.events[j]
            tries == Cardinality(TriesBefore(batch.events, j, e.current))
        IN  /\ (e.status \in {"completed", "completed_with_warning"} \/ e.type = "error")
               => e.attempts = tries
            /\ e.status = "generating"
               => (e.attempt = tries /\ e.attempt \in 1..4)

\* two tries scored below the threshold and the third above it: two
\* regenerating events, then a completed event with attempts = 3
C34_Witness ==
    /\ batch.pc = "completed"
    /\ batch.threshold = 7
    /\ Cardinality(EventsOf(batch.events, "regenerating", batch.i)) = 2
    /\ Cardinality(EventsOf(batch.events, "retrying", batch.i)) = 0
    /\ LastEvent(batch).status = "completed"
    /\ LastEvent(batch).score = Some(9)
    /\ LastEvent(batch).attempts = 3

----------------------------------------------------------------------------
(* The counters *)

\* C35: chapters_completed never exceeds total_chapters_planned, and when a
\* batch run stands at its complete event the two are equal.
C35_CompletedWithinPlanned ==
    \A id \in DOMAIN workflows :
        /\ workflows[id].chapters_completed <= workflows[id].total_chapters_planned
        /\ (batch.pc = "complete" /\ batch.workflow_id = id)
           => workflows[id].chapters_completed = workflows[id].total_chapters_planned

----------------------------------------------------------------------------
(* Operations that end in an error *)

StageOperations ==
    {"generate_characters_and_settings", "generate_outline", "generate_chapter",
     "validate_chapter"}

\* C36: a stage operation that ends in an error, whatever the error, leaves
\* every workflow record as it was before the call.
C36_FailedStageLeavesWorkflow ==
    [][(\E op \in StageOperations : DirectStep(op)) /\ result'.status # "ok"
       => workflows' = workflows]_vars

----------------------------------------------------------------------------
(* Interleaved operations *)

\* C37: with two operations under way at once on a workflow, interleaved at
\* their suspension points, the chapter_number values of chapters stay
\* pairwise distinct and chapters_completed stays the number of entries.
C37_InterleavingKeepsChaptersDistinct ==
    \A id \in DOMAIN workflows :
        LET chs == workflows[id].chapters
        IN  /\ \A j, k \in 1..Len(chs) :
                  j # k => chs[j].chapter_number # chs[k].chapter_number
            /\ workflows[id].chapters_completed = Len(chs)

\* two generations of chapter 1 are under way at once, one of them begun
\* before the chapter had an entry and about to store its draft over the
\* entry the other one stored
C37_Witness ==
    /\ tasks["t1"].pc = "awaiting"
    /\ tasks["t1"].awaits = 1
    /\ tasks["t1"].n = 1
    /\ tasks["t1"].kind = "batch"
    /\ tasks["t1"].regeneration_attempts = 0
    /\ tasks["t1"].i = 1
    /\ tasks["t2"].pc = "awaiting_validation"
    /\ tasks["t2"].n = 1
    /\ tasks["t2"].regeneration_attempts = 0
    /\ tasks["t2"].i = 1
    /\ Len(workflows["w1"].chapters) = 1

----------------------------------------------------------------------------
(* The outline entry a chapter is built from *)

\* C38: in a batch run, whatever chapter numbers the outline holds, the chapter
\* stored by a try has the title of the pending outline entry the try is for,
\* the title its progress events report.
C38_StoredTitleIsReportedTitle ==
    [][(batch.pc = "generating" /\ batch'.pc = "validating")
       => /\ LastEvent(batch').chapter_title = batch.pending[batch.i].title
          /\ CurrentEntry(workflows'[batch.workflow_id]).title
                = LastEvent(batch').chapter_title]_vars

----------------------------------------------------------------------------
(* The step outline and the guard of the outline stage *)

\* C39: a characters/settings stage that succeeds leaves at least one
\* character and populated settings, and in every state whose current_step is
\* outline the guard of the outline stage is satisfied.
C39_OutlineStepSatisfiesGuard ==
    \A id \in DOMAIN workflows :
        workflows[id].current_step = "outline"
        => (workflows[id].characters # <<>> /\ workflows[id].settings # None)

============================================================================
